---------------------------- MODULE Spec2Model ----------------------------
(***************************************************************************)
(* Model of src/iconfonts.py: the IconFonts extension for Python-Markdown. *)
(*                                                                         *)
(* Text is a sequence of one-character strings.  A configuration is the    *)
(* extension's three options (prefix, base, prefix_base_pairs).            *)
(* extendMarkdown registers one IconFontsPattern per binding in the        *)
(* Markdown instance's inline-pattern registry; the inline pass then       *)
(* applies the registered patterns, in registry order, to the text, each   *)
(* until it matches no more, replacing every match by a placeholder for    *)
(* the element handleMatch returned.                                       *)
(*                                                                         *)
(* The pattern of a binding is the regular expression "&" + prefix +       *)
(* ICON_RE.  The prefix is interpolated as written, so the model reads it  *)
(* the way the regular-expression compiler does: "." is the wildcard       *)
(* (the pattern is compiled with DOTALL), "|" splits the whole pattern     *)
(* into alternatives, every other character of the model's prefixes        *)
(* stands for itself.                                                      *)
(***************************************************************************)
EXTENDS Integers, Sequences, FiniteSets, TLC

VARIABLES
    prefix,        \* config "prefix": the default binding's marker
    base,          \* config "base": the default binding's base class
    pairs,         \* config "prefix_base_pairs", in mapping order: <<marker, base>> entries
    text,          \* the text handed to the inline pass
    tok,           \* the parts the text was written from (NoTok when it is free text)
    pc,            \* "init" (constructed), "scan" (extendMarkdown done), "done"
    registry,      \* md.inlinePatterns: the registered patterns, in the order they are tried
    data,          \* the text as the inline pass sees it now (matches replaced by placeholders)
    origin,        \* for every cell of data, the index in text it comes from
    patternIndex,  \* the pattern the inline pass is applying
    stash          \* the elements produced so far, in order of production

vars == <<prefix, base, pairs, text, tok, pc, registry, data, origin, patternIndex, stash>>

---------------------------------------------------------------------------
(* Characters and strings *)

Lower == {"a","b","c","d","e","f","g","h","i","j","k","l","m",
          "n","o","p","q","r","s","t","u","v","w","x","y","z"}
Upper == {"A","B","C","D","E","F","G","H","I","J","K","L","M",
          "N","O","P","Q","R","S","T","U","V","W","X","Y","Z"}
Digit == {"0","1","2","3","4","5","6","7","8","9"}

\* The character class [a-zA-Z0-9-] of ICON_RE.
NameChars == Lower \cup Upper \cup Digit \cup {"-"}

\* The cell at index i of s; "EOF" past either end.
At(s, i) == IF i \in 1..Len(s) THEN s[i] ELSE "EOF"

\* s[i .. j-1]
Slice(s, i, j) == IF j <= i THEN <<>> ELSE SubSeq(s, i, j - 1)

RECURSIVE Flatten(_)
Flatten(ss) == IF ss = <<>> THEN <<>> ELSE Head(ss) \o Flatten(Tail(ss))

\* sep.join(parts)
RECURSIVE Join(_, _)
Join(sep, parts) ==
    IF parts = <<>> THEN <<>>
    ELSE IF Len(parts) = 1 THEN parts[1]
    ELSE parts[1] \o sep \o Join(sep, Tail(parts))

\* s.split(sep) for a one-character sep: always at least one (possibly empty) part.
RECURSIVE SplitFrom(_, _, _, _)
SplitFrom(s, sep, i, cur) ==
    IF i > Len(s) THEN <<cur>>
    ELSE IF s[i] = sep THEN <<cur>> \o SplitFrom(s, sep, i + 1, <<>>)
    ELSE SplitFrom(s, sep, i + 1, Append(cur, s[i]))

Split(s, sep) == SplitFrom(s, sep, 1, <<>>)

\* filter(None, parts): the non-empty parts, in order.
FilterNonEmpty(parts) == SelectSeq(parts, LAMBDA x : x # <<>>)

\* s.rstrip(c)
RECURSIVE RStrip(_, _)
RStrip(s, c) ==
    IF s # <<>> /\ s[Len(s)] = c THEN RStrip(SubSeq(s, 1, Len(s) - 1), c) ELSE s

---------------------------------------------------------------------------
(* The pattern "&" + prefix + ICON_RE *)

\* A capture group that took no part in the match (None in Python).
None == <<"None">>

NoMatch == [start |-> 0, end |-> 0, name |-> None, mod |-> None, user_mod |-> None]

\* One character of the prefix, as the compiled pattern reads it.
AtomMatches(a, c) == IF a = "." THEN c # "EOF" ELSE a = c

\* The prefix fragment frag matches s at p (it has a fixed length).
FragAt(frag, s, p) == \A k \in 1..Len(frag) : AtomMatches(frag[k], At(s, p + k - 1))

\* [a-zA-Z0-9-]* from q: the index after the longest run.
RECURSIVE RunEnd(_, _)
RunEnd(s, q) == IF At(s, q) \in NameChars THEN RunEnd(s, q + 1) ELSE q

\* (,[a-zA-Z0-9-]+)* from r: the index after the longest such tail.
RECURSIVE ListTail(_, _)
ListTail(s, r) ==
    IF At(s, r) = "," /\ RunEnd(s, r + 1) > r + 1
    THEN ListTail(s, RunEnd(s, r + 1))
    ELSE r

\* ([a-zA-Z0-9-]+(,[a-zA-Z0-9-]+)*)? from q: the index after it (q when it is absent).
ListEnd(s, q) == IF RunEnd(s, q) = q THEN q ELSE ListTail(s, RunEnd(s, q))

\* The captured text of an optional group over s[i .. j-1].
Group(s, i, j) == IF j > i THEN Slice(s, i, j) ELSE None

\* ICON_RE at q.  No character of the name class is ":", "," or ";", so each
\* greedy run is the only one that lets the rest match.
IconAt(s, q) ==
    LET n == RunEnd(s, q)
        m == ListEnd(s, n + 1)
        u == ListEnd(s, m + 1)
    IN  IF n = q THEN NoMatch
        ELSE IF At(s, n) = ";"
        THEN [start |-> q, end |-> n + 1, name |-> Slice(s, q, n),
              mod |-> None, user_mod |-> None]
        ELSE IF At(s, n) # ":" THEN NoMatch
        ELSE IF At(s, m) = ";"
        THEN [start |-> q, end |-> m + 1, name |-> Slice(s, q, n),
              mod |-> Group(s, n + 1, m), user_mod |-> None]
        ELSE IF At(s, m) # ":" THEN NoMatch
        ELSE IF At(s, u) = ";"
        THEN [start |-> q, end |-> u + 1, name |-> Slice(s, q, n),
              mod |-> Group(s, n + 1, m), user_mod |-> Group(s, m + 1, u)]
        ELSE NoMatch

\* The alternatives of "&" + pre + ICON_RE: "|" in pre splits the whole pattern,
\* so only the first alternative starts with "&" and only the last ends with ICON_RE.
Alternatives(pre) ==
    LET frags == Split(pre, "|")
    IN  [i \in 1..Len(frags) |->
            [amp |-> (i = 1), frag |-> frags[i], icon |-> (i = Len(frags))]]

\* One alternative at p.
AltAt(alt, s, p) ==
    LET q == IF alt.amp THEN p + 1 ELSE p
        r == q + Len(alt.frag)
        ic == IconAt(s, r)
    IN  IF alt.amp /\ At(s, p) # "&" THEN NoMatch
        ELSE IF ~FragAt(alt.frag, s, q) THEN NoMatch
        ELSE IF ~alt.icon
        THEN [NoMatch EXCEPT !.start = p, !.end = r]
        ELSE IF ic = NoMatch THEN NoMatch
        ELSE [ic EXCEPT !.start = p]

\* The pattern at p: the first alternative that matches there.
RECURSIVE FirstAlt(_, _, _, _)
FirstAlt(alts, i, s, p) ==
    IF i > Len(alts) THEN NoMatch
    ELSE IF AltAt(alts[i], s, p) # NoMatch THEN AltAt(alts[i], s, p)
    ELSE FirstAlt(alts, i + 1, s, p)

MatchAt(pre, s, p) == FirstAlt(Alternatives(pre), 1, s, p)

\* compiled_re.search(s): the leftmost match.
RECURSIVE SearchFrom(_, _, _)
SearchFrom(pre, s, p) ==
    IF p > Len(s) THEN NoMatch
    ELSE IF MatchAt(pre, s, p) # NoMatch THEN MatchAt(pre, s, p)
    ELSE SearchFrom(pre, s, p + 1)

Search(pre, s) == SearchFrom(pre, s, 1)

---------------------------------------------------------------------------
(* IconFontsPattern.handleMatch *)

\* f"{name}" of a group: the text, or "None" for a group that took no part.
Format(g) == IF g = None THEN <<"N", "o", "n", "e">> ELSE g

\* map(lambda c: prefix + c, parts)
AddPrefix(pre, parts) == [i \in 1..Len(parts) |-> pre \o parts[i]]

\* ClassOf with the base slot filled whether or not the base is empty.
ClassOf_BaseAlways(pre, bas, m) ==
    LET modV  == IF m.mod # None
                 THEN <<Join(<<" ">>, AddPrefix(pre, FilterNonEmpty(Split(m.mod, ","))))>>
                 ELSE <<>>
        userV == IF m.user_mod # None
                 THEN <<Join(<<" ">>, FilterNonEmpty(Split(m.user_mod, ",")))>>
                 ELSE <<>>
    IN  Join(<<" ">>, <<bas, pre \o Format(m.name)>> \o modV \o userV)

\* The class string handleMatch sets, for the pattern of binding (pre, bas) and
\* the match m: the values of the dict `classes`, in insertion order, joined
\* by one space.
ClassOf(pre, bas, m) ==
    LET baseV == IF bas # <<>> THEN <<bas>> ELSE <<>>
        nameV == <<pre \o Format(m.name)>>
        modV  == IF m.mod # None
                 THEN <<Join(<<" ">>, AddPrefix(pre, FilterNonEmpty(Split(m.mod, ","))))>>
                 ELSE <<>>
        userV == IF m.user_mod # None
                 THEN <<Join(<<" ">>, FilterNonEmpty(Split(m.user_mod, ",")))>>
                 ELSE <<>>
    IN  Join(<<" ">>, baseV \o nameV \o modV \o userV)

\* handleMatch: the element (its class; aria-hidden is always "true") and the
\* span m.start(0), m.end(0) it replaces.
HandleMatch(pat, m) ==
    [class |-> ClassOf(pat.prefix, pat.base, m), aria_hidden |-> "true",
     start |-> m.start, end |-> m.end]

---------------------------------------------------------------------------
(* IconFontsExtension.extendMarkdown *)

Priority == 175

\* The stable sort by descending priority the registry keeps its items in.
RECURSIVE InsertByPriority(_, _)
InsertByPriority(sorted, item) ==
    IF sorted = <<>> THEN <<item>>
    ELSE IF Head(sorted).priority < item.priority THEN <<item>> \o sorted
    ELSE <<Head(sorted)>> \o InsertByPriority(Tail(sorted), item)

RECURSIVE SortByPriority(_)
SortByPriority(items) ==
    IF items = <<>> THEN <<>>
    ELSE InsertByPriority(SortByPriority(SubSeq(items, 1, Len(items) - 1)),
                          items[Len(items)])

\* Register with the new item put first among its priority.
Register_First(reg, item) ==
    SortByPriority(<<item>> \o SelectSeq(reg, LAMBDA x : x.name # item.name))

\* md.inlinePatterns.register(item, name, priority): an item registered under
\* the same name is dropped first; the new item goes last among its priority.
Register(reg, item) ==
    SortByPriority(Append(SelectSeq(reg, LAMBDA x : x.name # item.name), item))

\* The pattern object of the default binding, and its registry name.
DefaultItem(pre, bas) ==
    [name |-> <<"iconfonts">>, prefix |-> pre, base |-> bas, priority |-> Priority,
     seq |-> 0]

\* The pattern object of the k-th prefix_base_pairs entry, registered as
\* "iconfonts_" + prefix.rstrip("-").  seq is the order of construction.
PairItem(entry, k) ==
    [name |-> <<"iconfonts", "_">> \o RStrip(entry[1], "-"),
     prefix |-> entry[1], base |-> entry[2], priority |-> Priority,
     seq |-> k]

\* The loop over prefix_base_pairs.items(), from entry k on.
RECURSIVE RegisterPairs(_, _, _)
RegisterPairs(reg, entries, k) ==
    IF k > Len(entries) THEN reg
    ELSE RegisterPairs(Register(reg, PairItem(entries[k], k)), entries, k + 1)

\* extendMarkdown: the default pattern, then one pattern per entry.
ExtendMarkdown ==
    /\ pc = "init"
    /\ registry' = RegisterPairs(Register(<<>>, DefaultItem(prefix, base)), pairs, 1)
    /\ pc' = "scan"
    /\ UNCHANGED <<prefix, base, pairs, text, tok, data, origin, patternIndex, stash>>

---------------------------------------------------------------------------
(* The inline pass over the registered patterns *)

DigitStr == <<"0", "1", "2", "3", "4", "5", "6", "7", "8", "9">>

\* "%04d" % n
Digits4(n) ==
    <<DigitStr[((n \div 1000) % 10) + 1], DigitStr[((n \div 100) % 10) + 1],
      DigitStr[((n \div 10) % 10) + 1], DigitStr[(n % 10) + 1]>>

\* The placeholder text that stands for stashed element number n.
Placeholder(n) ==
    <<"STX", "k", "l", "z", "z", "w", "x", "h", ":">> \o Digits4(n) \o <<"ETX">>

\* The pattern being applied matches: handleMatch builds the element, the
\* element is stashed and its placeholder replaces the matched span; the same
\* pattern is applied again from the start of the text.
ApplyPattern ==
    /\ pc = "scan"
    /\ patternIndex <= Len(registry)
    /\ Search(registry[patternIndex].prefix, data) # NoMatch
    /\ LET pat == registry[patternIndex]
           m   == Search(pat.prefix, data)
           el  == HandleMatch(pat, m)
           ph  == Placeholder(Len(stash))
       IN  /\ stash' = Append(stash, [class |-> el.class, aria_hidden |-> el.aria_hidden,
                                      by |-> patternIndex,
                                      at |-> origin[el.start],
                                      till |-> origin[el.end - 1] + 1])
           /\ data' = Slice(data, 1, el.start) \o ph \o Slice(data, el.end, Len(data) + 1)
           /\ origin' = Slice(origin, 1, el.start)
                          \o [i \in 1..Len(ph) |-> origin[el.start]]
                          \o Slice(origin, el.end, Len(origin) + 1)
    /\ UNCHANGED <<prefix, base, pairs, text, tok, pc, registry, patternIndex>>

\* The pattern being applied matches nowhere: on to the next pattern.
NextPattern ==
    /\ pc = "scan"
    /\ patternIndex <= Len(registry)
    /\ Search(registry[patternIndex].prefix, data) = NoMatch
    /\ patternIndex' = patternIndex + 1
    /\ UNCHANGED <<prefix, base, pairs, text, tok, pc, registry, data, origin, stash>>

\* Every pattern has been applied.
Finish ==
    /\ pc = "scan"
    /\ patternIndex > Len(registry)
    /\ pc' = "done"
    /\ UNCHANGED <<prefix, base, pairs, text, tok, registry, data, origin, patternIndex, stash>>

Next == ExtendMarkdown \/ ApplyPattern \/ NextPattern \/ Finish

---------------------------------------------------------------------------
(* Configurations and texts *)

MaxMods == 3

Delimiters == {"&", ":", ",", ";"}

\* Markers: none, a plain one, and two whose characters mean something to the
\* regular-expression compiler.
Prefixes == {<<>>, <<"i", "-">>, <<"i", ".">>, <<"i", "|", "j">>}

Bases == {<<>>, <<"b">>, <<"b", " ">>}

\* A marker the compiled pattern matches literally.
Plain(s) == \A i \in 1..Len(s) : s[i] \in NameChars

Names == {<<"x">>, <<"X", "-", "2">>, <<"m", "_", "y">>}

\* The entries of a modifier list; the empty one is what lies between two commas.
Entries == {<<"a">>, <<"b">>, <<>>}

ModLists == UNION {[1..k -> Entries] : k \in 0..MaxMods}

NoTok == [name |-> <<>>, colons |-> 0, mods |-> <<>>, umods |-> <<>>]

\* name [ ":" [mods] [ ":" [umods] ] ]
Tokens ==
    {t \in [name : Names, colons : 0..2, mods : ModLists, umods : ModLists] :
        /\ Len(t.mods) + Len(t.umods) <= MaxMods
        /\ (t.colons = 0 => t.mods = <<>>)
        /\ (t.colons < 2 => t.umods = <<>>)}

\* The text of a token after the marker.
Render(t) ==
    t.name
    \o (IF t.colons >= 1 THEN <<":">> \o Join(<<",">>, t.mods) ELSE <<>>)
    \o (IF t.colons = 2 THEN <<":">> \o Join(<<",">>, t.umods) ELSE <<>>)
    \o <<";">>

\* The state after construction, before extendMarkdown.
Constructed ==
    /\ pc = "init"
    /\ registry = <<>>
    /\ data = text
    /\ origin = [i \in 1..Len(text) |-> i]
    /\ patternIndex = 1
    /\ stash = <<>>

\* One binding, and a text that is one token written for it.
InitToken ==
    /\ prefix \in Prefixes
    /\ base \in Bases
    /\ pairs = <<>>
    /\ tok \in Tokens
    /\ text = <<"&">> \o prefix \o Render(tok)
    /\ Constructed

SpecToken == InitToken /\ [][Next]_vars

---------------------------------------------------------------------------
(* Token recognition and class composition: C1, C2, C4, C5 *)

\* The class the specification composes for binding (pre, bas) and token t: the
\* non-empty items among base, marker+name, marker+mod for each mod, each user
\* mod, in this order, joined by one space.
Expected(pre, bas, t) ==
    Join(<<" ">>,
         FilterNonEmpty(<<bas, pre \o t.name>>
                        \o [i \in 1..Len(t.mods) |-> pre \o t.mods[i]]
                        \o t.umods))

\* t without the empty entries of its lists.
Filtered(t) ==
    [t EXCEPT !.mods = FilterNonEmpty(t.mods), !.umods = FilterNonEmpty(t.umods)]

NoEmptyEntry(list) == \A i \in 1..Len(list) : list[i] # <<>>

\* An empty entry between two commas: "a,,b".
InnerEmptyOnly(list) ==
    /\ list # <<>> => (list[1] # <<>> /\ list[Len(list)] # <<>>)
    /\ \A i \in 1..(Len(list) - 1) : ~(list[i] = <<>> /\ list[i + 1] = <<>>)

\* The whole text was recognized as one token of the default binding and
\* rewritten to one element of class cls.
RewrittenTo(cls) ==
    stash = <<[class |-> cls, aria_hidden |-> "true", by |-> 1,
               at |-> 1, till |-> Len(text) + 1]>>

\* C1: for every binding, a token "&" MARKER NAME [":" [MODS] [":" [USERMODS]]] ";"
\* whose name and modifier entries are non-empty runs of [A-Za-z0-9-] is
\* recognized, and its element's class is base, marker+name, each marker+mod,
\* each user mod, joined by single spaces.
C1_TokenClass ==
    (/\ pc = "done"
     /\ Plain(tok.name)
     /\ NoEmptyEntry(tok.mods) /\ NoEmptyEntry(tok.umods))
    => RewrittenTo(Expected(prefix, base, tok))

\* C1 for the markers the compiled pattern reads literally (or with the
\* wildcard, which matches the character it is written as).
C1_TokenClass_NoAlternation ==
    (\A i \in 1..Len(prefix) : prefix[i] # "|") => C1_TokenClass

\* C2: a token with an empty modifier entry between two commas is still
\* recognized, and its class has the segments of the other entries only.
C2_EmptyEntryFiltered ==
    (/\ pc = "done"
     /\ Plain(prefix)
     /\ Plain(tok.name)
     /\ InnerEmptyOnly(tok.mods) /\ InnerEmptyOnly(tok.umods)
     /\ ~(NoEmptyEntry(tok.mods) /\ NoEmptyEntry(tok.umods)))
    => RewrittenTo(Expected(prefix, base, Filtered(tok)))

\* C5: "_" is accepted in names: a token whose name holds an underscore is
\* recognized and rewritten to the class marker+name.
C5_UnderscoreAccepted ==
    (/\ pc = "done"
     /\ Plain(prefix)
     /\ \E i \in 1..Len(tok.name) : tok.name[i] = "_"
     /\ NoEmptyEntry(tok.mods) /\ NoEmptyEntry(tok.umods))
    => RewrittenTo(Expected(prefix, base, tok))

HasPrefix(s, pre) == Len(s) >= Len(pre) /\ SubSeq(s, 1, Len(pre)) = pre

NoDelimiter(s) == \A i \in 1..Len(s) : s[i] \notin Delimiters

NoSpace(s) == \A i \in 1..Len(s) : s[i] # " "

\* No leading, trailing or doubled space.
SingleSpaced(c) ==
    /\ c # <<>>
    /\ c[1] # " " /\ c[Len(c)] # " "
    /\ \A i \in 1..(Len(c) - 1) : ~(c[i] = " " /\ c[i + 1] = " ")

\* The segments of class c come in the order base (when there is one), the
\* marker with the name, marker-prefixed modifiers, unprefixed modifiers.
InSlotOrder(pre, bas, c) ==
    LET segs == Split(c, " ")
        b    == IF bas # <<>> THEN 1 ELSE 0
    IN  /\ Len(segs) >= b + 1
        /\ (b = 1 => segs[1] = bas)
        /\ HasPrefix(segs[b + 1], pre) /\ Len(segs[b + 1]) > Len(pre)
        /\ \E j \in (b + 1)..Len(segs) :
              /\ \A i \in (b + 2)..j :
                    HasPrefix(segs[i], pre) /\ Len(segs[i]) > Len(pre)
              /\ \A i \in (j + 1)..Len(segs) : segs[i] # <<>> /\ Plain(segs[i])

\* Element e replaced the whole text, which is a token with a name and
\* modifier entries of name characters: its class is made of exactly the
\* token's parts, each in its slot and in input order.
PartsInOrder(pre, bas, e) ==
    (/\ e.at = 1 /\ e.till = Len(text) + 1
     /\ Plain(tok.name)
     /\ NoEmptyEntry(tok.mods) /\ NoEmptyEntry(tok.umods))
    => e.class = Expected(pre, bas, tok)

WellFormedClass(pre, bas, e) ==
    /\ NoDelimiter(e.class)
    /\ SingleSpaced(e.class)
    /\ InSlotOrder(pre, bas, e.class)
    /\ PartsInOrder(pre, bas, e)

\* C4 as stated: for every binding, the class of every element has no
\* delimiter, no doubled, leading or trailing space, and its parts in slot order.
C4_ClassWellFormed_AnyBinding ==
    \A k \in 1..Len(stash) :
        WellFormedClass(registry[stash[k].by].prefix, registry[stash[k].by].base,
                        stash[k])

\* C4, amended: the same for every binding whose marker and base hold no
\* delimiter and no space.
C4_ClassWellFormed ==
    \A k \in 1..Len(stash) :
        LET pat == registry[stash[k].by]
        IN  (NoDelimiter(pat.prefix \o pat.base) /\ NoSpace(pat.prefix \o pat.base))
            => WellFormedClass(pat.prefix, pat.base, stash[k])

\* An element with all four slots filled, two prefixed modifiers among them.
C4_Witness ==
    /\ pc = "done"
    /\ prefix = <<"i", "-">> /\ base = <<"b">>
    /\ Len(stash) = 1
    /\ stash[1].class = <<"b", " ", "i", "-", "x", " ", "i", "-", "a", " ",
                           "i", "-", "b", " ", "b">>

---------------------------------------------------------------------------
(* Unterminated tokens: C3 *)

MaxTail == 4

TailChars == {"a", ":", ",", ";", " ", "&"}

Tails == UNION {[1..k -> TailChars] : k \in 0..MaxTail}

\* One binding, and a text that starts like a token of it and goes on freely.
InitText ==
    /\ prefix \in Prefixes
    /\ base \in Bases
    /\ pairs = <<>>
    /\ tok = NoTok
    /\ \E tail \in Tails : text = <<"&">> \o prefix \o tail
    /\ Constructed

SpecText == InitText /\ [][Next]_vars

\* s reads w, character by character, from p on.
ReadsAt(s, p, w) == \A k \in 1..Len(w) : At(s, p + k - 1) = w[k]

\* The index after the longest run of name and modifier characters from q.
RECURSIVE PayloadEnd(_, _)
PayloadEnd(s, q) ==
    IF At(s, q) \in NameChars \cup {":", ","} THEN PayloadEnd(s, q + 1) ELSE q

\* At p the text reads "&", the marker, one or more name or modifier
\* characters and then something that is not ";" (or it ends).
Unterminated(pre, s, p) ==
    /\ ReadsAt(s, p, <<"&">> \o pre)
    /\ PayloadEnd(s, p + 1 + Len(pre)) > p + 1 + Len(pre)
    /\ At(s, PayloadEnd(s, p + 1 + Len(pre))) # ";"

\* Position p of the text lies in no span that was replaced by an element.
Untouched(p) == \A k \in 1..Len(stash) : ~(stash[k].at <= p /\ p < stash[k].till)

\* C3: for every binding and text, an unterminated token never matches: no
\* element is produced for it and the text there stays as it is.
C3_UnterminatedNeverMatches ==
    \A p \in 1..Len(text) : Unterminated(prefix, text, p) => Untouched(p)

\* C3 for the markers the compiled pattern does not split into alternatives.
C3_UnterminatedNeverMatches_NoAlternation ==
    (\A i \in 1..Len(prefix) : prefix[i] # "|") => C3_UnterminatedNeverMatches

---------------------------------------------------------------------------
(* Several bindings: C6, C7, C8, C9, C10 *)

MaxPairs == 2

MaxPieces == 2

DefaultPrefixes == {<<"i">>, <<"i", "-">>}

DefaultBases == {<<>>, <<"d">>}

\* The prefix_base_pairs entries a configuration is made of.
PairEntries == {<<<<"i">>, <<"p">>>>, <<<<"i", "-">>, <<"q">>>>, <<<<"i", ".">>, <<>>>>}

\* Mappings of up to MaxPairs entries, in order; the keys of a mapping differ.
PairLists ==
    {l \in UNION {[1..k -> PairEntries] : k \in 0..MaxPairs} :
        \A i, j \in 1..Len(l) : i # j => l[i][1] # l[j][1]}

Pieces ==
    {<<"&", "i", "-", "x", ";">>, <<"&", "i", "x", "x", ";">>, <<"&", "i", ".", "x", ";">>,
     <<"&", "i", "-", "x">>, <<" ">>}

Texts == {Flatten(l) : l \in UNION {[1..k -> Pieces] : k \in 0..MaxPieces}}

\* A default binding, a mapping of further bindings, and a text of tokens.
InitSetup ==
    /\ prefix \in DefaultPrefixes
    /\ base \in DefaultBases
    /\ pairs \in PairLists
    /\ tok = NoTok
    /\ text \in Texts
    /\ Constructed

SpecSetup == InitSetup /\ [][Next]_vars

\* The bindings of the configuration, in order: the default one, then the entries.
Derived ==
    <<[prefix |-> prefix, base |-> base]>>
    \o [k \in 1..Len(pairs) |-> [prefix |-> pairs[k][1], base |-> pairs[k][2]]]

\* An entry's marker is exactly the default marker.
Collides == \E k \in 1..Len(pairs) : pairs[k][1] = prefix

\* C6: a configuration in which a marker collides exactly with another
\* registered marker ends in an error at setup: extendMarkdown never completes
\* with a pattern registered for that marker.
C6_CollisionRejected ==
    Collides => (pc = "init" /\ \A i \in 1..Len(registry) : registry[i].prefix # prefix)

\* C8: after extendMarkdown the registry holds the default pattern and one
\* pattern per prefix_base_pairs entry.
C8_OnePatternPerEntry ==
    pc # "init" => Len(registry) = 1 + Len(pairs)

\* p is a proper prefix of q.
ProperPrefix(p, q) == Len(p) < Len(q) /\ HasPrefix(q, p)

\* The registered patterns that match the text at p.
MatchingAt(p) == {r \in 1..Len(registry) : MatchAt(registry[r].prefix, text, p) # NoMatch}

\* The element that replaced the token at p was produced by pattern r.
ProducedBy(p, r) == \E k \in 1..Len(stash) : stash[k].at = p /\ stash[k].by = r

\* Two registered patterns, the marker of i a proper prefix of the marker of j,
\* both match the text at p.
Overlap(i, j, p) ==
    /\ ProperPrefix(registry[i].prefix, registry[j].prefix)
    /\ {i, j} \subseteq MatchingAt(p)

\* C7 as stated: when the markers of two registered bindings are one a prefix
\* of the other and both match a token at the same position, the element is
\* produced by the binding with the longer marker.
C7_LongerMarkerWins ==
    (pc = "done" /\ \A r \in 1..Len(registry) : Plain(registry[r].prefix)) =>
        \A i, j \in 1..Len(registry) : \A p \in 1..Len(text) :
            Overlap(i, j, p) => ProducedBy(p, j)

\* C7, amended: in that case the element is produced by the binding that was
\* registered first among those matching there, whatever the marker lengths
\* (for markers of name characters, which the pattern matches literally).
C7_FirstRegisteredWins ==
    (pc = "done" /\ \A r \in 1..Len(registry) : Plain(registry[r].prefix)) =>
        \A i, j \in 1..Len(registry) : \A p \in 1..Len(text) :
            Overlap(i, j, p) =>
                \E r \in MatchingAt(p) :
                    /\ \A o \in MatchingAt(p) : registry[r].seq <= registry[o].seq
                    /\ ProducedBy(p, r)

\* The default marker "i" was registered before the entry "i-", and the token
\* "&i-x;" both match went to the default binding.
C7_Witness ==
    /\ pc = "done"
    /\ prefix = <<"i">> /\ base = <<"d">>
    /\ pairs = << <<<<"i", "-">>, <<"q">>>> >>
    /\ text = <<"&", "i", "-", "x", ";">>
    /\ Len(stash) = 1
    /\ stash[1].by = 1
    /\ stash[1].class = <<"d", " ", "i", "-", "x">>

\* The first binding of the configuration, in order, whose pattern matches at p.
FirstDerived(p) ==
    CHOOSE d \in 1..Len(Derived) :
        /\ MatchAt(Derived[d].prefix, text, p) # NoMatch
        /\ \A e \in 1..(d - 1) : MatchAt(Derived[e].prefix, text, p) = NoMatch

\* C9: the bindings of a configuration are all registered, at priority 175 and
\* in configuration order, and where two of them match a token at the same "&"
\* the element there is the one the first of them composes.
C9_RegistrationOrder ==
    (pc = "done" /\ \A d \in 1..Len(Derived) : Plain(Derived[d].prefix)) =>
        /\ [r \in 1..Len(registry) |-> [prefix |-> registry[r].prefix, base |-> registry[r].base]]
             = Derived
        /\ \A r \in 1..Len(registry) : registry[r].priority = 175
        /\ \A p \in 1..Len(text) :
              Cardinality({d \in 1..Len(Derived) :
                              MatchAt(Derived[d].prefix, text, p) # NoMatch}) >= 2
              => \E k \in 1..Len(stash) :
                    /\ stash[k].at = p
                    /\ stash[k].class =
                          ClassOf(Derived[FirstDerived(p)].prefix, Derived[FirstDerived(p)].base,
                                  MatchAt(Derived[FirstDerived(p)].prefix, text, p))

\* No two entries are registered under the same name.
NoNameClash ==
    \A i, j \in 1..Len(pairs) :
        i # j => RStrip(pairs[i][1], "-") # RStrip(pairs[j][1], "-")

\* C9 for the configurations whose entries get different registry names.
C9_RegistrationOrder_NoNameClash == NoNameClash => C9_RegistrationOrder

\* C10: a marker is matched as a literal string: every element replaces a
\* token that starts with "&" and the exact marker text.
C10_MarkerLiteral ==
    \A k \in 1..Len(stash) :
        LET pre == registry[stash[k].by].prefix
        IN  ReadsAt(text, stash[k].at, <<"&">> \o pre)

=============================================================================
